---- MODULE Spec2Model ----
(***************************************************************************)
(* Model of the Haraka plugin for Wild Duck (src/index.js): the RCPT-time  *)
(* recipient resolution (hook_rcpt), the per-transaction target maps       *)
(* (hook_mail), the rate limiter (rateLimit), the normalizer               *)
(* (normalize_address) and the end of the message (hook_queue).            *)
(*                                                                         *)
(* Strings are sequences of one-character strings, so that normalisation,  *)
(* case repair and punycode conversion are computed, not assumed.          *)
(* The two non-ASCII characters of the model are written "U+00FC" (u with  *)
(* diaeresis) and "U+00DC" (its upper case).                               *)
(***************************************************************************)
EXTENDS Integers, Sequences, FiniteSets, TLC

(***************************************************************************)
(* Bounds of the model.                                                    *)
(***************************************************************************)
\* RCPT commands of one transaction
MaxRcpts == 2
\* accounts the store can create during one run
MaxCreated == 1
\* transactions that call the rate limiter side by side, and the calls they make
RlConns == 2
RlCalls == 4
\* mailbox targets of a transaction at the end of the message
MaxStored == 2

(***************************************************************************)
(* Characters and strings                                                  *)
(***************************************************************************)
LowerLetters == <<"a", "b", "c", "d", "e", "f", "g", "n", "r", "s", "t", "u", "w", "x", "y", "z", "U+00FC">>
UpperLetters == <<"A", "B", "C", "D", "E", "F", "G", "N", "R", "S", "T", "U", "W", "X", "Y", "Z", "U+00DC">>
Digits == {"0", "1", "2", "3", "4", "5", "6", "7", "8", "9"}

Range(s) == {s[i] : i \in DOMAIN s}

IndexIn(c, letters) == CHOOSE i \in DOMAIN letters : letters[i] = c

\* String.prototype.toUpperCase / toLowerCase, one character
UpperCh(c) == IF c \in Range(LowerLetters) THEN UpperLetters[IndexIn(c, LowerLetters)] ELSE c
LowerCh(c) == IF c \in Range(UpperLetters) THEN LowerLetters[IndexIn(c, UpperLetters)] ELSE c

toUpperCase(s) == [i \in DOMAIN s |-> UpperCh(s[i])]
toLowerCase(s) == [i \in DOMAIN s |-> LowerCh(s[i])]

IsSpace(c) == c = " "

\* String.prototype.trim
RECURSIVE trimLeft(_)
trimLeft(s) == IF s # <<>> /\ IsSpace(Head(s)) THEN trimLeft(Tail(s)) ELSE s
RECURSIVE trimRight(_)
trimRight(s) ==
    IF s # <<>> /\ IsSpace(s[Len(s)]) THEN trimRight(SubSeq(s, 1, Len(s) - 1)) ELSE s
trim(s) == trimRight(trimLeft(s))

\* String.prototype.indexOf / lastIndexOf of one character, 1-based, 0 when absent
indexOf(s, c) ==
    IF c \in Range(s) THEN CHOOSE i \in DOMAIN s : s[i] = c /\ \A j \in 1..(i - 1) : s[j] # c
    ELSE 0
lastIndexOf(s, c) ==
    IF c \in Range(s) THEN CHOOSE i \in DOMAIN s : s[i] = c /\ \A j \in (i + 1)..Len(s) : s[j] # c
    ELSE 0

\* s.substr(0, s.indexOf(c)) and s.substr(s.lastIndexOf(c) + 1)
Before(s, c) == SubSeq(s, 1, indexOf(s, c) - 1)
AfterLast(s, c) == SubSeq(s, lastIndexOf(s, c) + 1, Len(s))

\* s.split(c)
RECURSIVE split(_, _)
split(s, c) ==
    IF indexOf(s, c) = 0 THEN <<s>>
    ELSE <<Before(s, c)>> \o split(SubSeq(s, indexOf(s, c) + 1, Len(s)), c)

\* parts.join(c)
RECURSIVE join(_, _)
join(parts, c) ==
    IF parts = <<>> THEN <<>>
    ELSE IF Len(parts) = 1 THEN parts[1]
    ELSE parts[1] \o <<c>> \o join(Tail(parts), c)

(***************************************************************************)
(* punycode.toASCII / punycode.toUnicode, label by label.  The non-ASCII   *)
(* labels of the model are the single characters U+00FC, whose punycode    *)
(* form is xn--tda, and U+00DC, whose punycode form is xn--wca: the        *)
(* encoding keeps the case of what it encodes.                             *)
(***************************************************************************)
IsAsciiCh(c) == c \notin {"U+00FC", "U+00DC"}
IsAscii(s) == \A i \in DOMAIN s : IsAsciiCh(s[i])

PunyLabel == <<"x", "n", "-", "-", "t", "d", "a">>
UnicodeLabel == <<"U+00FC">>
PunyUpperLabel == <<"x", "n", "-", "-", "w", "c", "a">>
UnicodeUpperLabel == <<"U+00DC">>

labelToASCII(l) ==
    IF IsAscii(l) THEN l
    ELSE IF l = UnicodeLabel THEN PunyLabel
    ELSE IF l = UnicodeUpperLabel THEN PunyUpperLabel
    ELSE l
labelToUnicode(l) ==
    IF l = PunyLabel THEN UnicodeLabel
    ELSE IF l = PunyUpperLabel THEN UnicodeUpperLabel
    ELSE l

toASCII(d) == join([i \in DOMAIN split(d, ".") |-> labelToASCII(split(d, ".")[i])], ".")
toUnicode(d) == join([i \in DOMAIN split(d, ".") |-> labelToUnicode(split(d, ".")[i])], ".")

(***************************************************************************)
(* Envelope addresses.  An address object has a user and a host part;      *)
(* address() is the address as it came on the wire.                        *)
(***************************************************************************)
At == "@"

AddressOf(rcpt) == rcpt.user \o <<At>> \o rcpt.host

\* /\*/.test(rcpt.user)
HasWildcardChar(user) == "*" \in Range(user)

IsDigit(c) == c \in Digits
IsAsciiLetter(c) == IsAsciiCh(c) /\ (c \in Range(LowerLetters) \/ c \in Range(UpperLetters))
\* [0-9a-f] with the i flag
IsHexCi(c) == IsDigit(c) \/ LowerCh(c) \in {"a", "b", "c", "d", "e", "f"}
\* [A-Z2-7] with the i flag, and without it
IsBase32Ci(c) == IsAsciiLetter(c) \/ c \in {"2", "3", "4", "5", "6", "7"}
IsBase32(c) == (IsAsciiLetter(c) /\ c \in Range(UpperLetters)) \/ c \in {"2", "3", "4", "5", "6", "7"}

\* number of digits of s from position i on
RECURSIVE DigitRun(_, _)
DigitRun(s, i) == IF i <= Len(s) /\ IsDigit(s[i]) THEN 1 + DigitRun(s, i + 1) ELSE 0

\* Length of the match of /^SRS\d+=/ at the start of s (0: no match);
\* ci is the i flag of the expression.
SrsPrefixLen(s, ci) ==
    LET t == IF ci THEN toUpperCase(s) ELSE s
        n == DigitRun(s, 4)
    IN IF /\ Len(s) >= 5
          /\ SubSeq(t, 1, 3) = <<"S", "R", "S">>
          /\ n >= 1
          /\ 3 + n + 1 <= Len(s)
          /\ s[3 + n + 1] = "="
       THEN 3 + n + 1
       ELSE 0

\* /([-=+][0-9a-f]{4})(=[A-Z2-7]{2}=)/i matches s at position i
TimestampAt(s, i) ==
    /\ i + 8 <= Len(s)
    /\ s[i] \in {"-", "=", "+"}
    /\ \A k \in 1..4 : IsHexCi(s[i + k])
    /\ s[i + 5] = "="
    /\ IsBase32Ci(s[i + 6])
    /\ IsBase32Ci(s[i + 7])
    /\ s[i + 8] = "="

\* mutant of FixSrsPrefix: the prefix is left in the case it came in
FixSrsPrefixNone(s) == s

\* .replace(/^SRS\d+=/i, val => val.toUpperCase())
FixSrsPrefix(s) ==
    LET n == SrsPrefixLen(s, TRUE)
    IN toUpperCase(SubSeq(s, 1, n)) \o SubSeq(s, n + 1, Len(s))

\* .replace(/([-=+][0-9a-f]{4})(=[A-Z2-7]{2}=)/i, (str, sig, ts) => sig + ts.toUpperCase())
FixSrsTimestamp(s) ==
    LET hits == {i \in DOMAIN s : TimestampAt(s, i)}
    IN IF hits = {} THEN s
       ELSE LET i == CHOOSE h \in hits : \A g \in hits : h <= g
            IN SubSeq(s, 1, i + 4) \o toUpperCase(SubSeq(s, i + 5, i + 8))
                   \o SubSeq(s, i + 9, Len(s))

\* tools.normalizeAddress of wildduck: trims, folds the case of the domain and
\* decodes it to Unicode
normalizeAddress(a) ==
    LET t == trim(a)
        user == SubSeq(t, 1, lastIndexOf(t, At) - 1)
        domain == AfterLast(t, At)
    IN user \o <<At>> \o toUnicode(trim(toLowerCase(domain)))

normalize_address(rcpt) ==
    IF SrsPrefixLen(rcpt.user, TRUE) > 0
    THEN FixSrsTimestamp(FixSrsPrefix(rcpt.user)) \o <<At>> \o toUnicode(trim(toLowerCase(rcpt.host)))
    ELSE normalizeAddress(AddressOf(rcpt))

(***************************************************************************)
(* srsRewriter.reverse of srs.js: SRS0=<hash>=<timestamp>=<domain>=<user>. *)
(* The hash is the keyed digest of the rest; the model's secret signs      *)
(* every address with the same four characters.  A reversal that throws,   *)
(* or that returns no pair, has ok = FALSE.                                *)
(***************************************************************************)
SignedHash == <<"a", "b", "1", "2">>

srsReverse(local) ==
    LET parts == split(local, "=")
    IN IF /\ Len(parts) >= 5
          /\ parts[1] = <<"S", "R", "S", "0">>
          /\ parts[2] = SignedHash
          /\ Len(parts[3]) = 2
          /\ \A i \in 1..2 : IsBase32(parts[3][i])
       THEN [ok |-> TRUE, user |-> join(SubSeq(parts, 5, Len(parts)), "="), domain |-> parts[4]]
       ELSE [ok |-> FALSE, user |-> <<>>, domain |-> <<>>]

(***************************************************************************)
(* Configuration (wildduck.yaml), the account store and the inputs.        *)
(***************************************************************************)
\* 1024 * 1024: accounts.maxStorage is given in megabytes
MB == 1048576
\* the window of a rate limit when none is configured, in milliseconds
DefaultWindowSize == 3600000

Str1(c) == <<c>>

\* accounts.createMissing, accounts.hosts, accounts.maxStorage, limits.rcpt,
\* limits.rcptWindowSize and limits.windowSize (0: not set)
Configs ==
    { [createMissing |-> TRUE, hosts |-> {Str1("y")}, maxStorage |-> 1,
       limit |-> 1, rcptWindowSize |-> 0, windowSize |-> 60000],
      [createMissing |-> FALSE, hosts |-> {}, maxStorage |-> 0,
       limit |-> 0, rcptWindowSize |-> 0, windowSize |-> 0],
      [createMissing |-> TRUE, hosts |-> {Str1("*")}, maxStorage |-> 0,
       limit |-> 2, rcptWindowSize |-> 1000, windowSize |-> 60000] }

\* ids of the accounts of the store, as id.toString() gives them
AccountIds == {<<"u", "1">>, <<"u", "2">>}
DigitNames == <<"1", "2", "3", "4", "5", "6", "7", "8", "9">>
\* id of the k-th account created by userHandler.create
NewId(k) == <<"n", DigitNames[k]>>

\* the documents userHandler.get can return for an account
UserDocs(id) ==
    [_id : {id}, username : {id}, disabled : {FALSE},
     quota : {0, 2 * MB}, storageUsed : {0, MB, 2 * MB}]
        \cup [_id : {id}, username : {id}, disabled : {TRUE}, quota : {0}, storageUsed : {0, MB}]
NoUser == [_id |-> <<>>, username |-> <<>>, disabled |-> FALSE, quota |-> 0, storageUsed |-> 0]

\* addressData.targets of an address with forwarding targets: a relay and the
\* mailbox of an account
AliasTargets ==
    << [type |-> "relay", value |-> <<"m", "x">>, user |-> <<>>],
       [type |-> "mail", value |-> <<>>, user |-> <<"u", "2">>] >>
\* a webhook, an external address, a target of a kind the plugin does not know,
\* and the mailbox of an account
OtherTargets ==
    << [type |-> "http", value |-> <<"h">>, user |-> <<>>],
       [type |-> "mail", value |-> <<"m", "x">>, user |-> <<>>],
       [type |-> "autoreply", value |-> <<>>, user |-> <<>>],
       [type |-> "mail", value |-> <<>>, user |-> <<"u", "1">>] >>
\* the addresses with forwarding targets: _id, forwards (0: not set), targets
Aliases ==
    { [_id |-> <<"a", "1">>, forwards |-> 0, targets |-> AliasTargets],
      [_id |-> <<"a", "2">>, forwards |-> 3, targets |-> OtherTargets] }
NoAlias == [_id |-> <<>>, forwards |-> 0, targets |-> <<>>]
\* consts.MAX_FORWARDS of wildduck
MaxForwards == 2000

\* what userHandler.resolveAddress calls back with: an error, no address,
\* the address of an account, or an address with forwarding targets
Resolutions ==
    {[kind |-> "err", user |-> <<>>], [kind |-> "none", user |-> <<>>], [kind |-> "targets", user |-> <<>>]}
        \cup {[kind |-> "user", user |-> id] : id \in AccountIds}

\* the RCPT TO addresses of the model
Rcpts ==
    { [user |-> <<"b">>, host |-> <<"y">>],
      [user |-> <<"b">>, host |-> <<"Y">>],
      [user |-> <<"c">>, host |-> <<"z">>],
      [user |-> <<"a", "*">>, host |-> <<"y">>],
      \* srs0=ab12=cd=E=u@f: valid, lower-cased on the way, original domain E
      [user |-> <<"s", "r", "s", "0", "=", "a", "b", "1", "2", "=", "c", "d", "=", "E", "=", "u">>,
       host |-> <<"f">>],
      \* SRS0=ab12=EF=E=u@f: valid, the same original address
      [user |-> <<"S", "R", "S", "0", "=", "a", "b", "1", "2", "=", "E", "F", "=", "E", "=", "u">>,
       host |-> <<"f">>],
      \* SRS0=ab12=CD=<U+00FC>=u@f: valid, internationalized original domain
      [user |-> <<"S", "R", "S", "0", "=", "a", "b", "1", "2", "=", "C", "D", "=", "U+00FC", "=", "u">>,
       host |-> <<"f">>],
      \* SRS0=ffff=CD=e=u@f: invalid signature
      [user |-> <<"S", "R", "S", "0", "=", "f", "f", "f", "f", "=", "C", "D", "=", "e", "=", "u">>,
       host |-> <<"f">>],
      \* SRS0=ab12=CD= =u@f: the original domain is blank
      [user |-> <<"S", "R", "S", "0", "=", "a", "b", "1", "2", "=", "C", "D", "=", " ", "=", "u">>,
       host |-> <<"f">>],
      \* SRS1=x@f: malformed
      [user |-> <<"S", "R", "S", "1", "=", "x">>, host |-> <<"f">>] }
NoRcpt == [user |-> <<>>, host |-> <<>>]

(***************************************************************************)
(* State                                                                   *)
(***************************************************************************)
VARIABLES
    cfg,        \* plugin.cfg
    tx,         \* connection.transaction.notes.targets: users, forward, recipients
    pc,         \* where the transaction is: "init", "idle" (no RCPT running),
                \* the callback a running RCPT waits for, or "thrown"
    loc,        \* the locals of the running hook_rcpt
    decision,   \* what the last RCPT passed to next()
    counters,   \* the ttl counters of the redis store: key -> value, ttl
    created,    \* number of accounts userHandler.create has created
    rl,         \* the rateLimit calls of concurrent transactions and their history
    g,          \* history of the running RCPT: its number, the calls it made,
                \* whether a call failed, whether the limiter denied, and tx and
                \* the counters before it
    q,          \* the running hook_queue: its streams, its callbacks, its locals
                \* and what it passed to next()
    nz          \* an address under normalize_address: the input and the results

vars == <<cfg, tx, pc, loc, decision, counters, created, rl, g, q, nz>>

\* a Map as the sequence of its entries in insertion order
mapHas(m, k) == \E i \in DOMAIN m : m[i].key = k
mapGet(m, k) == m[CHOOSE i \in DOMAIN m : m[i].key = k]

\* mutant of setAdd: the value is pushed whether or not it is present
setAddPush(set, v) == Append(set, v)

\* Set.prototype.add, the Set as the sequence of its values in insertion order
setAdd(set, v) == IF \E i \in DOMAIN set : set[i] = v THEN set ELSE Append(set, v)

\* mutant of mapSet: the entry is pushed whether or not the key is present
mapSetPush(m, k, v) == Append(m, v)

\* Map.prototype.set: a new key is appended, the value of a present key is replaced
mapSet(m, k, v) ==
    IF mapHas(m, k) THEN [i \in DOMAIN m |-> IF m[i].key = k THEN v ELSE m[i]]
    ELSE Append(m, v)

NoDecision == [code |-> "NONE", dsn |-> "none"]
Decision(code, dsn) == [code |-> code, dsn |-> dsn]

EmptyTargets == [users |-> <<>>, forward |-> <<>>, recipients |-> <<>>]
\* rcpt, address, reversed, addressData (its kind and its user), userData, the
\* id of createAccount's callback, and addressData and pos of
\* handleForwardingAddress
NoLocals ==
    [rcpt |-> NoRcpt, address |-> <<>>, reversed |-> <<>>, kind |-> "", user |-> <<>>,
     userData |-> NoUser, id |-> <<>>, alias |-> NoAlias, pos |-> 0]
NoHistory ==
    [nrcpt |-> 0, calls |-> {}, err |-> FALSE, denied |-> FALSE, before |-> EmptyTargets,
     counters |-> <<>>]

\* the transactions that call rateLimit side by side
Conns == 1..RlConns
\* the identities they call it for
Identities == {<<"u", "1">>, <<"u", "@", "e">>}
NoLast == [value |-> <<>>, n |-> 0, window |-> 0, success |-> FALSE]
NoCalls ==
    [conn |-> [c \in Conns |-> [pc |-> "ready", value |-> <<>>, result |-> "none"]],
     issued |-> 0,
     answered |-> [v \in Identities |-> 0],
     window |-> [v \in Identities |-> 0],
     sawDenied |-> FALSE,
     last |-> NoLast]

\* no filterHandler.process call has called back
NoResponse == [err |-> FALSE, error |-> "none", prepared |-> FALSE]
\* the completion record of a forward, before it is composed
NoRecord == [action |-> "", from |-> <<>>, to |-> <<>>, targets |-> <<>>]
\* hook_queue has not been called.  source: connection.transaction.message_stream;
\* path: which readers are piped to it; message: the stream maildrop.push
\* returned; push, log: the callbacks of maildrop.push and of insertOne;
\* collected: collector.chunks holds the message; store: where storeNext is;
\* users, stored, prepared: the locals of the callback of forwardMessage;
\* outstanding: filterHandler.process calls that have not called back;
\* delivered: the process calls in the order they were made; failed: the
\* number of the call that failed; response: what the last call called back
\* with; returned: whether the calls called back with a parsed structure, in
\* order (the structure of call k is written k); nexts: what was passed to next(), in order
NoQueue ==
    [path |-> "none", source |-> "idle", message |-> "none", push |-> "none", log |-> "none",
     targets |-> <<>>, record |-> NoRecord, collected |-> FALSE,
     store |-> "none", users |-> <<>>, stored |-> 0, prepared |-> 0, outstanding |-> 0,
     delivered |-> <<>>, failed |-> 0, response |-> NoResponse, returned |-> <<>>,
     nexts |-> <<>>]
\* no address is under normalize_address
NoAddress == [step |-> 0, input |-> NoRcpt, once |-> <<>>, twice |-> <<>>]

Init ==
    /\ cfg \in Configs
    /\ tx = EmptyTargets
    /\ pc = "init"
    /\ loc = NoLocals
    /\ decision = NoDecision
    /\ counters = <<>>
    /\ created = 0
    /\ rl = NoCalls
    /\ g = NoHistory
    /\ q = NoQueue
    /\ nz = NoAddress

hook_mail ==
    /\ pc = "init"
    /\ tx' = EmptyTargets
    /\ pc' = "idle"
    /\ UNCHANGED <<q, nz, cfg, rl, loc, decision, counters, created, g>>

(***************************************************************************)
(* The rate limiter                                                        *)
(***************************************************************************)
\* 'rl:' + key + ':' + value
rlKey(key, value) == <<"rl", key, value>>

\* plugin.cfg.limits[key + 'WindowSize'] || plugin.cfg.limits.windowSize || 1 * 3600 * 1000
windowSizeOf(c) ==
    IF c.rcptWindowSize # 0 THEN c.rcptWindowSize
    ELSE IF c.windowSize # 0 THEN c.windowSize
    ELSE DefaultWindowSize

\* ttlcounter of the counter store, one atomic step: the counter of `key` is
\* incremented by `count`, a counter that starts gets `windowSize` to live, and
\* the call succeeds iff the incremented value is at most `max`
ttlcounter(c, key, count, max, windowSize) ==
    LET present == key \in DOMAIN c
        value == (IF present THEN c[key].value ELSE 0) + count
        ttl == IF present THEN c[key].ttl ELSE windowSize
    IN [result |-> [success |-> value <= max, value |-> value, ttl |-> ttl],
        counters |-> [k \in DOMAIN c \cup {key} |->
                         IF k = key THEN [value |-> value, ttl |-> ttl] ELSE c[k]]]

\* rateLimit: no limit configured, the callback gets (null, true) at once
rateLimitOff(c) == c.limit = 0

\* mutant of rateLimitCall: the counter is keyed by the purpose alone
rateLimitCallNoValue(c, ctrs, key, value) ==
    ttlcounter(ctrs, rlKey(key, <<>>), 1, c.limit, windowSizeOf(c))

\* rateLimit: the counter call it makes for (key, value)
rateLimitCall(c, ctrs, key, value) ==
    ttlcounter(ctrs, rlKey(key, value), 1, c.limit, windowSizeOf(c))

\* rateLimit: what its callback hands on as `success`
rateLimitSuccess(result) == result.success

(***************************************************************************)
(* hook_rcpt                                                               *)
(***************************************************************************)
\* next(code, dsn): the RCPT is decided
Finish(d) ==
    /\ decision' = d
    /\ pc' = "idle"

\* /^SRS\d+=/.test(address)
IsSrsAddress(address) == SrsPrefixLen(address, FALSE) > 0

\* mutant of srsCheck: the check of the decoded domain is left out
srsCheckNoDomain(address) ==
    LET r == srsReverse(Before(address, At))
    IN IF ~r.ok
       THEN [ok |-> FALSE, reversed |-> <<>>]
       ELSE [ok |-> TRUE, reversed |-> join(<<r.user, r.domain>>, At)]

\* the try block of the SRS branch: ok = FALSE when it returned DENY
srsCheck(address) ==
    LET r == srsReverse(Before(address, At))
        toDomain == toASCII(trim(toLowerCase(r.domain)))
    IN IF ~r.ok \/ toDomain = <<>>
       THEN [ok |-> FALSE, reversed |-> <<>>]
       ELSE [ok |-> TRUE, reversed |-> join(<<r.user, r.domain>>, At)]

\* { type: 'mail', value: reversed }
srsTarget(reversed) == [key |-> reversed, type |-> "mail", value |-> reversed, recipient |-> <<>>]

\* { user: userData, recipient: rcpt.address() }
userTarget(userData, rcpt) == [key |-> userData._id, user |-> userData, recipient |-> AddressOf(rcpt)]

\* userData.quota || Number(plugin.cfg.accounts.maxStorage || 0) * 1024 * 1024
quotaOf(c, userData) == IF userData.quota # 0 THEN userData.quota ELSE c.maxStorage * MB

\* mutant of overQuota: the guard on storageUsed is dropped
overQuotaUnguarded(c, userData) == quotaOf(c, userData) <= userData.storageUsed

\* userData.storageUsed && quota <= userData.storageUsed
overQuota(c, userData) == userData.storageUsed # 0 /\ quotaOf(c, userData) <= userData.storageUsed

\* mutant of rateLimitDecision: an admitted recipient is rejected as well
rateLimitDecisionReject(err, success) ==
    IF err THEN Decision("ERR", "error")
    ELSE Decision("DENYSOFT", "rcpt_too_fast")

\* mutant of rateLimitDecision: a denial is answered with DENY
rateLimitDecisionDeny(err, success) ==
    IF err THEN Decision("ERR", "error")
    ELSE IF ~success THEN Decision("DENY", "rcpt_too_fast")
    ELSE Decision("OK", "none")

\* the callback of a rateLimit call of hook_rcpt: next(err), next(DENYSOFT, ...)
\* or the target is recorded and next(OK)
rateLimitDecision(err, success) ==
    IF err THEN Decision("ERR", "error")
    ELSE IF ~success THEN Decision("DENYSOFT", "rcpt_too_fast")
    ELSE Decision("OK", "none")

\* normalize_address and the SRS check of every address of the model
normalized == [rcpt \in Rcpts |-> normalize_address(rcpt)]
srsChecked == [rcpt \in Rcpts |-> srsCheck(normalized[rcpt])]

hook_rcpt(rcpt) ==
    /\ pc = "idle"
    /\ g.nrcpt < MaxRcpts
    /\ LET address == normalized[rcpt]
           srs == srsChecked[rcpt]
           started == [nrcpt |-> g.nrcpt + 1, calls |-> {}, err |-> FALSE,
                       denied |-> FALSE, before |-> tx, counters |-> counters]
           added == [tx EXCEPT !.recipients = setAdd(@, address)]
       IN \/ /\ HasWildcardChar(rcpt.user)
             /\ Finish(Decision("DENY", "no_such_user"))
             /\ loc' = [NoLocals EXCEPT !.rcpt = rcpt]
             /\ g' = started
             /\ UNCHANGED <<tx, counters>>
          \/ /\ ~HasWildcardChar(rcpt.user)
             /\ IsSrsAddress(address)
             /\ ~srs.ok
             /\ Finish(Decision("DENY", "no_such_user"))
             /\ loc' = [NoLocals EXCEPT !.rcpt = rcpt, !.address = address]
             /\ tx' = added
             /\ g' = started
             /\ UNCHANGED counters
          \/ /\ ~HasWildcardChar(rcpt.user)
             /\ IsSrsAddress(address)
             /\ srs.ok /\ srs.reversed # <<>>
             /\ rateLimitOff(cfg)
             /\ Finish(rateLimitDecision(FALSE, TRUE))
             /\ loc' = [NoLocals EXCEPT !.rcpt = rcpt, !.address = address, !.reversed = srs.reversed]
             /\ tx' = [added EXCEPT !.forward = mapSet(@, srs.reversed, srsTarget(srs.reversed))]
             /\ g' = [started EXCEPT !.calls = {"rateLimit"}]
             /\ UNCHANGED counters
          \/ /\ ~HasWildcardChar(rcpt.user)
             /\ IsSrsAddress(address)
             /\ srs.ok /\ srs.reversed # <<>>
             /\ ~rateLimitOff(cfg)
             /\ pc' = "rl_srs"
             /\ decision' = NoDecision
             /\ loc' = [NoLocals EXCEPT !.rcpt = rcpt, !.address = address, !.reversed = srs.reversed]
             /\ tx' = added
             /\ g' = [started EXCEPT !.calls = {"rateLimit", "ttlcounter"}]
             /\ UNCHANGED counters
          \/ /\ ~HasWildcardChar(rcpt.user)
             /\ ~IsSrsAddress(address) \/ (srs.ok /\ srs.reversed = <<>>)
             /\ pc' = "resolveAddress"
             /\ decision' = NoDecision
             /\ loc' = [NoLocals EXCEPT !.rcpt = rcpt, !.address = address]
             /\ tx' = added
             /\ g' = [started EXCEPT !.calls = {"resolveAddress"}]
             /\ UNCHANGED counters
    /\ UNCHANGED <<q, nz, cfg, rl, created>>

\* the callback of the rateLimit call of the SRS branch
srs_rate_limited ==
    /\ pc = "rl_srs"
    /\ \/ /\ Finish(rateLimitDecision(TRUE, FALSE))
          /\ g' = [g EXCEPT !.err = TRUE]
          /\ UNCHANGED <<tx, counters>>
       \/ LET call == rateLimitCall(cfg, counters, "rcpt", loc.reversed)
              success == rateLimitSuccess(call.result)
          IN /\ counters' = call.counters
             /\ Finish(rateLimitDecision(FALSE, success))
             /\ g' = [g EXCEPT !.denied = ~success]
             /\ tx' = IF success
                      THEN [tx EXCEPT !.forward = mapSet(@, loc.reversed, srsTarget(loc.reversed))]
                      ELSE tx
    /\ UNCHANGED <<q, nz, cfg, rl, loc, created>>

\* mutant of hostAllowed: the allow-list is not consulted
hostAllowedAny(c, domain) == TRUE

\* hosts.includes('*') || hosts.includes(domain)
hostAllowed(c, domain) == Str1("*") \in c.hosts \/ domain \in c.hosts

\* the username of a new account: the digest of the address with the dots of
\* its local part removed (the digest and its encoding are kept symbolic)
deriveUsername(address) ==
    LET local == Before(address, At)
        nodots == join(split(local, "."), "")
    IN <<"md5">> \o nodots \o SubSeq(address, indexOf(address, At), Len(address))

\* userData of createAccount, before the store gave it an id
accountDraft(c, address) ==
    [_id |-> <<>>, username |-> deriveUsername(address), disabled |-> FALSE,
     quota |-> c.maxStorage * MB, storageUsed |-> 0]

\* createAccount(): the domain is refused, or userHandler.create is called
\* (kind: what the resolution of the address was when it is called)
createAccount(kind) ==
    LET domain == AfterLast(loc.address, At)
    IN \/ /\ ~hostAllowed(cfg, domain)
          /\ Finish(Decision("DENY", "no_such_user"))
          /\ loc' = [loc EXCEPT !.kind = kind]
          /\ g' = g
       \/ /\ hostAllowed(cfg, domain)
          /\ pc' = "create"
          /\ decision' = NoDecision
          /\ loc' = [loc EXCEPT !.kind = kind, !.userData = accountDraft(cfg, loc.address)]
          /\ g' = [g EXCEPT !.calls = @ \cup {"create"}]

\* what handleForwardingAddress is called with when it is called with nothing
Undefined == [kind |-> "undefined"]

\* handleForwardingAddress(addressData): reading addressData._id of undefined
\* throws before the counter is called; with an address it calls the counter
\* of the forwards of the address
handleForwardingAddress(addressData) ==
    /\ decision' = NoDecision
    /\ IF addressData = Undefined
       THEN /\ pc' = "thrown"
            /\ g' = g
            /\ loc' = [loc EXCEPT !.kind = "targets"]
       ELSE /\ pc' = "wdf"
            /\ g' = [g EXCEPT !.calls = @ \cup {"ttlcounter"}]
            /\ loc' = [loc EXCEPT !.kind = "targets", !.alias = addressData]

\* the callback of userHandler.resolveAddress
address_resolved ==
    /\ pc = "resolveAddress"
    /\ \E addressData \in Resolutions \cup {[kind |-> "user", user |-> NewId(k)] : k \in 1..created} :
          \/ /\ addressData.kind = "err"
             /\ Finish(Decision("ERR", "error"))
             /\ g' = [g EXCEPT !.err = TRUE]
             /\ loc' = [loc EXCEPT !.kind = "err"]
          \/ /\ addressData.kind = "targets"
             /\ handleForwardingAddress(Undefined)
          \/ /\ addressData.kind = "none"
             /\ cfg.createMissing
             /\ createAccount("none")
          \/ /\ addressData.kind = "none"
             /\ ~cfg.createMissing
             /\ Finish(Decision("DENY", "no_such_user"))
             /\ loc' = [loc EXCEPT !.kind = "none"]
             /\ g' = g
          \/ /\ addressData.kind = "user"
             /\ pc' = "get"
             /\ decision' = NoDecision
             /\ loc' = [loc EXCEPT !.kind = "user", !.user = addressData.user]
             /\ g' = [g EXCEPT !.calls = @ \cup {"get"}]
    /\ UNCHANGED <<q, nz, cfg, rl, tx, counters, created>>

\* mutant of userCheck: the quota is checked before the disabled flag
userCheckQuotaFirst(c, userData) ==
    IF overQuota(c, userData) THEN "full"
    ELSE IF userData.disabled THEN "disabled"
    ELSE "ok"

\* the checks of a fetched account, in the order the callback makes them
userCheck(c, userData) ==
    IF userData.disabled THEN "disabled"
    ELSE IF overQuota(c, userData) THEN "full"
    ELSE "ok"

\* the callback of userHandler.get
user_fetched ==
    /\ pc = "get"
    /\ \/ /\ Finish(Decision("ERR", "error"))
          /\ g' = [g EXCEPT !.err = TRUE]
          /\ UNCHANGED <<loc, tx>>
       \/ /\ cfg.createMissing
          /\ createAccount("user")
          /\ UNCHANGED tx
       \/ /\ ~cfg.createMissing
          /\ Finish(Decision("DENY", "no_such_user"))
          /\ UNCHANGED <<loc, g, tx>>
       \/ \E userData \in UserDocs(loc.user) :
             \/ /\ userCheck(cfg, userData) = "disabled"
                /\ Finish(Decision("DENY", "mbox_disabled"))
                /\ loc' = [loc EXCEPT !.userData = userData]
                /\ UNCHANGED <<g, tx>>
             \/ /\ userCheck(cfg, userData) = "full"
                /\ Finish(Decision("DENY", "mbox_full"))
                /\ loc' = [loc EXCEPT !.userData = userData]
                /\ UNCHANGED <<g, tx>>
             \/ /\ userCheck(cfg, userData) = "ok"
                /\ rateLimitOff(cfg)
                /\ Finish(rateLimitDecision(FALSE, TRUE))
                /\ loc' = [loc EXCEPT !.userData = userData]
                /\ tx' = [tx EXCEPT !.users = mapSet(@, userData._id, userTarget(userData, loc.rcpt))]
                /\ g' = [g EXCEPT !.calls = @ \cup {"rateLimit"}]
             \/ /\ userCheck(cfg, userData) = "ok"
                /\ ~rateLimitOff(cfg)
                /\ pc' = "rl_user"
                /\ decision' = NoDecision
                /\ loc' = [loc EXCEPT !.userData = userData]
                /\ g' = [g EXCEPT !.calls = @ \cup {"rateLimit", "ttlcounter"}]
                /\ UNCHANGED tx
    /\ UNCHANGED <<q, nz, cfg, rl, counters, created>>

\* the callback of the rateLimit call for a fetched account
user_rate_limited ==
    /\ pc = "rl_user"
    /\ \/ /\ Finish(rateLimitDecision(TRUE, FALSE))
          /\ g' = [g EXCEPT !.err = TRUE]
          /\ UNCHANGED <<tx, counters>>
       \/ LET call == rateLimitCall(cfg, counters, "rcpt", loc.userData._id)
              success == rateLimitSuccess(call.result)
          IN /\ counters' = call.counters
             /\ Finish(rateLimitDecision(FALSE, success))
             /\ g' = [g EXCEPT !.denied = ~success]
             /\ tx' = IF success
                      THEN [tx EXCEPT !.users = mapSet(@, loc.userData._id, userTarget(loc.userData, loc.rcpt))]
                      ELSE tx
    /\ UNCHANGED <<q, nz, cfg, rl, loc, created>>

\* what next() gets when userHandler.create fails
createFailed == Decision("DENY", "no_such_user")

\* the callback of userHandler.create
account_created ==
    /\ pc = "create"
    /\ \/ /\ Finish(createFailed)
          /\ g' = [g EXCEPT !.err = TRUE]
          /\ UNCHANGED <<loc, tx, created>>
       \/ /\ created < MaxCreated
          /\ rateLimitOff(cfg)
          /\ created' = created + 1
          /\ Finish(rateLimitDecision(FALSE, TRUE))
          /\ loc' = [loc EXCEPT !.id = NewId(created + 1), !.userData._id = NewId(created + 1)]
          /\ tx' = [tx EXCEPT !.users =
                       mapSet(@, NewId(created + 1),
                              userTarget([loc.userData EXCEPT !._id = NewId(created + 1)], loc.rcpt))]
          /\ g' = [g EXCEPT !.calls = @ \cup {"rateLimit"}]
       \/ /\ created < MaxCreated
          /\ ~rateLimitOff(cfg)
          /\ created' = created + 1
          /\ pc' = "rl_new"
          /\ decision' = NoDecision
          /\ loc' = [loc EXCEPT !.id = NewId(created + 1)]
          /\ g' = [g EXCEPT !.calls = @ \cup {"rateLimit", "ttlcounter"}]
          /\ UNCHANGED tx
    /\ UNCHANGED <<q, nz, cfg, rl, counters>>

\* the callback of the rateLimit call for a created account
new_rate_limited ==
    /\ pc = "rl_new"
    /\ \/ /\ Finish(rateLimitDecision(TRUE, FALSE))
          /\ g' = [g EXCEPT !.err = TRUE]
          /\ UNCHANGED <<tx, counters, loc>>
       \/ LET call == rateLimitCall(cfg, counters, "rcpt", loc.address)
              success == rateLimitSuccess(call.result)
              userData == [loc.userData EXCEPT !._id = loc.id]
          IN /\ counters' = call.counters
             /\ Finish(rateLimitDecision(FALSE, success))
             /\ g' = [g EXCEPT !.denied = ~success]
             /\ loc' = IF success THEN [loc EXCEPT !.userData = userData] ELSE loc
             /\ tx' = IF success
                      THEN [tx EXCEPT !.users = mapSet(@, loc.id, userTarget(userData, loc.rcpt))]
                      ELSE tx
    /\ UNCHANGED <<q, nz, cfg, rl, created>>

Next ==
    \/ hook_mail
    \/ \E rcpt \in Rcpts : hook_rcpt(rcpt)
    \/ srs_rate_limited
    \/ address_resolved
    \/ user_fetched
    \/ user_rate_limited
    \/ account_created
    \/ new_rate_limited

Spec == Init /\ [][Next]_vars

\* the callbacks a running RCPT waits for
Callbacks ==
    \/ srs_rate_limited
    \/ address_resolved
    \/ user_fetched
    \/ user_rate_limited
    \/ account_created
    \/ new_rate_limited

\* every call to the store and to the counters calls back
SpecLive == Spec /\ WF_vars(Callbacks)

(***************************************************************************)
(* The body of handleForwardingAddress.  No run of Spec reaches it: the    *)
(* only call passes no address.  SpecAlias adds the call with the address  *)
(* that was resolved, to follow the body as it is written.                 *)
(***************************************************************************)
\* 'wdf:' + addressData._id.toString()
wdfKey(id) == <<"wdf", "", id>>

\* handleForwardingAddress called with the resolved address
alias_resolved ==
    /\ pc = "resolveAddress"
    /\ \E addressData \in Aliases : handleForwardingAddress(addressData)
    /\ UNCHANGED <<q, nz, cfg, rl, tx, counters, created>>

\* the target as it is put into targets.forward
forwardTarget(target, recipient) ==
    [key |-> target.value, type |-> target.type, value |-> target.value, recipient |-> recipient]

\* the callback of the counter of the forwards
forwards_counted ==
    /\ pc = "wdf"
    /\ \/ /\ Finish(Decision("ERR", "error"))
          /\ g' = [g EXCEPT !.err = TRUE]
          /\ UNCHANGED <<loc, counters>>
       \/ LET call == ttlcounter(counters, wdfKey(loc.alias._id), Len(loc.alias.targets),
                                 IF loc.alias.forwards # 0 THEN loc.alias.forwards ELSE MaxForwards,
                                 0)
          IN /\ counters' = call.counters
             /\ IF call.result.success
                THEN /\ pc' = "processTarget"
                     /\ decision' = NoDecision
                     /\ loc' = [loc EXCEPT !.pos = 0]
                     /\ g' = g
                ELSE /\ Finish(Decision("DENYSOFT", "rcpt_too_fast"))
                     /\ g' = [g EXCEPT !.denied = TRUE]
                     /\ UNCHANGED loc
    /\ UNCHANGED <<q, nz, cfg, rl, tx, created>>

\* processTarget, one target of the address per turn
processTarget ==
    /\ pc = "processTarget"
    /\ \/ /\ loc.pos >= Len(loc.alias.targets)
          /\ Finish(Decision("OK", "none"))
          /\ UNCHANGED <<loc, tx, g>>
       \/ /\ loc.pos < Len(loc.alias.targets)
          /\ LET target == loc.alias.targets[loc.pos + 1]
                 next == [loc EXCEPT !.pos = @ + 1]
             IN \/ /\ target.type = "relay"
                   /\ tx' = [tx EXCEPT !.forward =
                                mapSet(@, target.value, forwardTarget(target, AddressOf(loc.rcpt)))]
                   /\ loc' = next
                   /\ UNCHANGED <<pc, decision, g>>
                \/ /\ target.type = "http" \/ (target.type = "mail" /\ target.user = <<>>)
                   /\ tx' = [tx EXCEPT !.forward =
                                mapSet(@, target.value,
                                       forwardTarget(target, IF target.type # "mail"
                                                             THEN AddressOf(loc.rcpt) ELSE <<>>))]
                   /\ loc' = next
                   /\ UNCHANGED <<pc, decision, g>>
                \/ /\ target.type \notin {"relay", "http", "mail"}
                   /\ loc' = next
                   /\ UNCHANGED <<pc, decision, tx, g>>
                \/ /\ target.type = "mail" /\ target.user # <<>>
                   /\ mapHas(tx.users, target.user)
                   /\ loc' = next
                   /\ UNCHANGED <<pc, decision, tx, g>>
                \/ /\ target.type = "mail" /\ target.user # <<>>
                   /\ ~mapHas(tx.users, target.user)
                   /\ pc' = "findOne"
                   /\ loc' = [next EXCEPT !.user = target.user]
                   /\ g' = [g EXCEPT !.calls = @ \cup {"findOne"}]
                   /\ UNCHANGED <<decision, tx>>
    /\ UNCHANGED <<q, nz, cfg, rl, counters, created>>

\* the callback of findOne for the account of a target
target_fetched ==
    /\ pc = "findOne"
    /\ \/ /\ Finish(Decision("ERR", "error"))
          /\ g' = [g EXCEPT !.err = TRUE]
          /\ UNCHANGED <<loc, tx>>
       \/ /\ pc' = "processTarget"
          /\ UNCHANGED <<decision, loc, tx, g>>
       \/ \E userData \in UserDocs(loc.user) :
             /\ pc' = "processTarget"
             /\ tx' = IF userData.disabled \/ overQuota(cfg, userData)
                      THEN tx
                      ELSE [tx EXCEPT !.users = mapSet(@, userData._id, userTarget(userData, loc.rcpt))]
             /\ UNCHANGED <<decision, loc, g>>
    /\ UNCHANGED <<q, nz, cfg, rl, counters, created>>

NextAlias ==
    \/ Next
    \/ alias_resolved
    \/ forwards_counted
    \/ processTarget
    \/ target_fetched

SpecAlias == Init /\ [][NextAlias]_vars

(***************************************************************************)
(* The rate limiter under concurrent transactions: every transaction calls *)
(* rateLimit for some identity, the counter store answers the calls one at *)
(* a time in any order, and the window of a counter ends at any time.      *)
(* rl.answered counts the answered calls of an identity in its window.     *)
(***************************************************************************)
\* rateLimit(connection, 'rcpt', value, next) is called by transaction c
rl_call(c, value) ==
    /\ rl.conn[c].pc = "ready"
    /\ rl.issued < RlCalls
    /\ \/ /\ rateLimitOff(cfg)
          /\ rl' = [rl EXCEPT !.conn[c] = [pc |-> "ready", value |-> value, result |-> "admitted"],
                              !.issued = @ + 1]
       \/ /\ ~rateLimitOff(cfg)
          /\ rl' = [rl EXCEPT !.conn[c] = [pc |-> "wait", value |-> value, result |-> "none"],
                              !.issued = @ + 1]
    /\ UNCHANGED <<q, nz, cfg, tx, pc, loc, decision, counters, created, g>>

\* the callback of the counter call of transaction c
rl_reply(c) ==
    /\ rl.conn[c].pc = "wait"
    /\ LET value == rl.conn[c].value
           call == rateLimitCall(cfg, counters, "rcpt", value)
           success == rateLimitSuccess(call.result)
       IN \/ /\ rl' = [rl EXCEPT !.conn[c] = [pc |-> "ready", value |-> value, result |-> "error"]]
             /\ UNCHANGED counters
          \/ /\ counters' = call.counters
             /\ rl' = [rl EXCEPT
                          !.conn[c] = [pc |-> "ready", value |-> value,
                                       result |-> IF success THEN "admitted" ELSE "denied"],
                          !.answered[value] = @ + 1,
                          !.sawDenied = @ \/ ~success,
                          !.last = [value |-> value, n |-> rl.answered[value] + 1,
                                    window |-> rl.window[value], success |-> success]]
    /\ UNCHANGED <<q, nz, cfg, tx, pc, loc, decision, created, g>>

\* the window of the counter of an identity ends: the store drops the key
Expire(value) ==
    /\ rlKey("rcpt", value) \in DOMAIN counters
    /\ counters' = [k \in DOMAIN counters \ {rlKey("rcpt", value)} |-> counters[k]]
    /\ rl' = [rl EXCEPT !.answered[value] = 0, !.window[value] = @ + 1]
    /\ UNCHANGED <<q, nz, cfg, tx, pc, loc, decision, created, g>>

NextRL ==
    \/ \E c \in Conns, value \in Identities : rl_call(c, value)
    \/ \E c \in Conns : rl_reply(c)
    \/ \E value \in Identities : Expire(value)

SpecRL == Init /\ [][NextRL]_vars

(***************************************************************************)
(* hook_queue: the end of the message.  The message stream is piped to the *)
(* collector and, when there are forward targets, on to the stream of the  *)
(* maildrop; then the message is stored for one account after the other.   *)
(* SpecQueue starts from the transactions the RCPT commands leave behind.  *)
(***************************************************************************)
\* connection.transaction.notes.sender
Sender == <<"a", "@", "x">>

\* the accounts of the mailbox targets of a transaction, with the RCPT each
\* was recorded for
StoredAccounts ==
    << userTarget([_id |-> <<"u", "1">>, username |-> <<"u", "1">>, disabled |-> FALSE,
                   quota |-> 0, storageUsed |-> 0],
                  [user |-> <<"b">>, host |-> <<"y">>]),
       userTarget([_id |-> <<"u", "2">>, username |-> <<"u", "2">>, disabled |-> FALSE,
                   quota |-> 2 * MB, storageUsed |-> MB],
                  [user |-> <<"c">>, host |-> <<"z">>]),
       userTarget([accountDraft([maxStorage |-> 1], <<"d", "@", "y">>) EXCEPT !._id = NewId(1)],
                  [user |-> <<"d">>, host |-> <<"y">>]),
       userTarget([_id |-> <<"u", "3">>, username |-> <<"u", "3">>, disabled |-> FALSE,
                   quota |-> 0, storageUsed |-> 0],
                  [user |-> <<"e">>, host |-> <<"y">>]) >>

\* the sequences of at most n different members of 1..m
Arrangements(m, n) ==
    {a \in UNION {[1..k -> 1..m] : k \in 0..n} : \A i, j \in DOMAIN a : a[i] = a[j] => i = j}

\* targets.forward of a transaction: nothing, or the address an SRS RCPT gave
ForwardMaps == {<<>>, <<srsTarget(<<"u", "@", "E">>)>>}

\* the transactions at the end of the RCPT commands
Transactions ==
    { [users |-> [i \in DOMAIN a |-> StoredAccounts[a[i]]],
       forward |-> f,
       recipients |-> [i \in DOMAIN a |-> normalizeAddress(StoredAccounts[a[i]].recipient)]
                        \o (IF f = <<>> THEN <<>>
                            ELSE <<normalize_address([user |-> <<"S", "R", "S", "0", "=", "a", "b", "1", "2", "=",
                                                                "E", "F", "=", "E", "=", "u">>,
                                                      host |-> <<"f">>])>>)]
      : a \in Arrangements(MaxStored + 1, MaxStored), f \in ForwardMaps }

\* the configuration the accounts of StoredAccounts were accepted and created under
InitQueue ==
    /\ cfg \in {c \in Configs : c.createMissing /\ c.maxStorage = 1}
    /\ tx \in Transactions
    /\ pc = "idle"
    /\ loc = NoLocals
    /\ decision = NoDecision
    /\ counters = <<>>
    /\ created = 0
    /\ rl = NoCalls
    /\ g = NoHistory
    /\ q = NoQueue
    /\ nz = NoAddress

\* next(code, message) of hook_queue
QueueNext(qq, d) == [qq EXCEPT !.nexts = Append(@, d)]

\* what the handlers of a stream error, of a failed push and of a failed
\* process call pass to next()
FailedToQueue == Decision("DENYSOFT", "Failed to Queue message")

\* Array.from(connection.transaction.notes.targets.users).map(e => e[1])
usersOf(m) == m

\* the forward targets as forwardMessage hands them to the maildrop
targetsOf(m) == [i \in DOMAIN m |-> [type |-> m[i].type, value |-> m[i].value, recipient |-> m[i].recipient]]

\* mutant of storeDone: the last account is left out
storeDoneEarly(users, stored) == stored + 1 >= Len(users)

\* stored >= users.length
storeDone(users, stored) == stored >= Len(users)

\* storeNext(): the message is processed, or filterHandler.process is called
\* for the next account with the parsed structure kept so far
storeNext(qq) ==
    IF storeDone(qq.users, qq.stored)
    THEN [QueueNext(qq, Decision("OK", "Message processed")) EXCEPT !.store = "finished"]
    ELSE [qq EXCEPT !.store = "process",
                    !.stored = @ + 1,
                    !.outstanding = @ + 1,
                    !.delivered = Append(@, [user |-> qq.users[qq.stored + 1].key,
                                             recipient |-> qq.users[qq.stored + 1].recipient,
                                             prepared |-> qq.prepared,
                                             collected |-> qq.collected])]

\* the callback given to forwardMessage: the locals are set and storeNext() is
\* called
done(qq) == storeNext([qq EXCEPT !.users = usersOf(tx.users), !.stored = 0, !.prepared = 0])

\* hook_queue up to the first wait: collectData when there is nothing to
\* forward, else maildrop.push, which returns the stream to write to or nothing
hook_queue ==
    /\ pc = "idle"
    /\ pc' = "queue"
    /\ \/ /\ Len(tx.forward) = 0
          /\ q' = [q EXCEPT !.path = "collect", !.source = "flowing"]
       \/ /\ Len(tx.forward) # 0
          /\ q' = [q EXCEPT !.path = "forward", !.source = "flowing", !.message = "open",
                            !.push = "pending", !.targets = targetsOf(tx.forward)]
       \/ /\ Len(tx.forward) # 0
          /\ q' = [q EXCEPT !.path = "unpiped", !.push = "pending", !.targets = targetsOf(tx.forward)]
    /\ UNCHANGED <<nz, cfg, tx, loc, decision, counters, created, rl, g>>

\* the message stream ends: the collector has every chunk; with the collector
\* as the only reader its 'end' is the done of collectData
stream_end ==
    /\ q.source = "flowing"
    /\ LET ended == [q EXCEPT !.source = "ended", !.collected = TRUE]
       IN q' = IF q.path = "collect" THEN done(ended) ELSE ended
    /\ UNCHANGED <<nz, cfg, tx, pc, loc, decision, counters, created, rl, g>>

\* the message stream emits 'error': it is passed to the collector, whose
\* handler calls next, or to the stream of the maildrop, whose handler calls
\* next once
stream_error ==
    /\ q.source = "flowing"
    /\ LET broken == [q EXCEPT !.source = "error"]
       IN q' = IF q.path = "collect" THEN QueueNext(broken, FailedToQueue)
               ELSE IF q.message = "open" THEN QueueNext([broken EXCEPT !.message = "error"], FailedToQueue)
               ELSE broken
    /\ UNCHANGED <<nz, cfg, tx, pc, loc, decision, counters, created, rl, g>>

\* the stream of the maildrop emits 'error' itself
message_error ==
    /\ q.message = "open"
    /\ q.push = "pending"
    /\ q' = QueueNext([q EXCEPT !.message = "error"], FailedToQueue)
    /\ UNCHANGED <<nz, cfg, tx, pc, loc, decision, counters, created, rl, g>>

\* the maildrop can call back without an error: it was given no stream, or the
\* stream it was given has ended and has not failed
pushCanSucceed(qq) == qq.path = "unpiped" \/ (qq.source = "ended" /\ qq.message = "open")

\* the completion record of the forward
forwardRecord(qq) == [action |-> "FORWARD", from |-> Sender, to |-> tx.recipients, targets |-> qq.targets]

\* mutant of pushFailed: the error is handed to done
pushFailedDone(qq) == done([qq EXCEPT !.push = "failed"])

\* the callback of maildrop.push with an error
pushFailed(qq) == QueueNext([qq EXCEPT !.push = "failed"], FailedToQueue)

\* mutant of pushQueued: done is called without waiting for insertOne
pushQueuedNoWait(qq) ==
    done([qq EXCEPT !.push = "queued", !.log = "pending", !.record = forwardRecord(qq)])

\* the callback of maildrop.push with the queued message: the completion
\* record is handed to insertOne
pushQueued(qq) == [qq EXCEPT !.push = "queued", !.log = "pending", !.record = forwardRecord(qq)]

\* the callback of maildrop.push: an error, nothing queued, or the queued message
push_called_back ==
    /\ q.push = "pending"
    /\ \/ q' = pushFailed(q)
       \/ /\ pushCanSucceed(q)
          /\ q' = done([q EXCEPT !.push = "empty"])
       \/ /\ pushCanSucceed(q)
          /\ q' = pushQueued(q)
    /\ UNCHANGED <<nz, cfg, tx, pc, loc, decision, counters, created, rl, g>>

\* the callback of insertOne: whether or not the record was written, done
log_called_back ==
    /\ q.log = "pending"
    /\ \E written \in BOOLEAN :
          q' = done([q EXCEPT !.log = IF written THEN "written" ELSE "failed"])
    /\ UNCHANGED <<nz, cfg, tx, pc, loc, decision, counters, created, rl, g>>

\* what filterHandler.process calls back with: err, response.error.code and
\* whether there is a preparedResponse
Responses ==
    {[err |-> TRUE, error |-> "none", prepared |-> FALSE]}
        \cup [err : {FALSE}, error : {"DroppedByPolicy", "Rejected"}, prepared : {FALSE}]
        \cup [err : {FALSE}, error : {"none"}, prepared : BOOLEAN]

\* mutant of processDecision: a message dropped by policy is to be retried
processDecisionSoft(r) ==
    IF r.err THEN FailedToQueue
    ELSE IF r.error # "none" THEN Decision("DENYSOFT", "response.error.message")
    ELSE NoDecision

\* the callback of filterHandler.process: what it passes to next(), NoDecision
\* when it goes on
processDecision(r) ==
    IF r.err THEN FailedToQueue
    ELSE IF r.error # "none"
         THEN Decision(IF r.error = "DroppedByPolicy" THEN "DENY" ELSE "DENYSOFT", "response.error.message")
    ELSE NoDecision

\* mutant of reusePrepared: every parsed structure that comes back is kept
reusePreparedLatest(prepared, r, k) == IF r.prepared THEN k ELSE prepared

\* if (!prepared && preparedResponse) prepared = preparedResponse, for the
\* callback of the k-th call
reusePrepared(prepared, r, k) == IF prepared = 0 /\ r.prepared THEN k ELSE prepared

\* the callback of filterHandler.process for the account it was called for
process_called_back ==
    /\ q.store = "process"
    /\ \E r \in Responses :
          LET back == [q EXCEPT !.outstanding = @ - 1, !.response = r,
                                !.returned = Append(@, r.prepared)]
          IN q' = IF processDecision(r) # NoDecision
                  THEN QueueNext([back EXCEPT !.store = "stopped", !.failed = q.stored], processDecision(r))
                  ELSE [back EXCEPT !.store = "scheduled",
                                    !.prepared = reusePrepared(q.prepared, r, q.stored)]
    /\ UNCHANGED <<nz, cfg, tx, pc, loc, decision, counters, created, rl, g>>

\* setImmediate(storeNext)
store_next ==
    /\ q.store = "scheduled"
    /\ q' = storeNext(q)
    /\ UNCHANGED <<nz, cfg, tx, pc, loc, decision, counters, created, rl, g>>

NextQueue ==
    \/ hook_queue
    \/ stream_end
    \/ stream_error
    \/ message_error
    \/ push_called_back
    \/ log_called_back
    \/ process_called_back
    \/ store_next

SpecQueue == InitQueue /\ [][NextQueue]_vars

(***************************************************************************)
(* normalize_address on its own: an address is normalized, and the result  *)
(* is taken as an address and normalized again.                            *)
(***************************************************************************)
\* local parts: plain, with a dot, with blanks, and redirect-encoded in
\* several cases
NormUsers ==
    { <<"b">>, <<"B">>, <<"b", ".", "c">>, <<" ", "b">>,
      <<"s", "r", "s", "0", "=", "a", "b", "1", "2", "=", "c", "d", "=", "e", "=", "u">>,
      <<"S", "R", "S", "0", "=", "A", "B", "1", "2", "=", "c", "D", "=", "E", "=", "u">>,
      <<"S", "r", "s", "1", "2", "=", "x", "=", "a", "b", "1", "2", "=", "e", "f", "=", "e", "=", "u">>,
      <<"s", "r", "s", "0", "+", "a", "b", "1", "2", "=", "c", "2", "=", "e", "=", "f", "f", "f", "f", "=", "d", "e", "=", "u">>,
      <<"s", "r", "s", "0", "=", "x">>,
      <<"s", "r", "s", "=", "b">>,
      <<"S", "R", "S", "1", "=", "a", "b", "1", "=", "c", "d", "=", "e", "=", "u">> }

\* domains: in both cases, with blanks, internationalized and in punycode
NormHosts ==
    { <<"y">>, <<"Y">>, <<" ", "y", " ">>, <<"y", ".", "Z">>,
      <<"U+00FC">>, <<"U+00DC">>,
      <<"x", "n", "-", "-", "t", "d", "a">>, <<"X", "N", "-", "-", "T", "D", "A">>,
      <<"x", "n", "-", "-", "w", "c", "a">>,
      <<"y", ".", "x", "n", "-", "-", "t", "d", "a">> }

NormInputs == [user : NormUsers, host : NormHosts]

\* the address a string stands for: the local part up to the last @ and the
\* domain after it
parseAddress(a) == [user |-> SubSeq(a, 1, lastIndexOf(a, At) - 1), host |-> AfterLast(a, At)]

InitNorm ==
    /\ cfg \in Configs
    /\ tx = EmptyTargets
    /\ pc = "init"
    /\ loc = NoLocals
    /\ decision = NoDecision
    /\ counters = <<>>
    /\ created = 0
    /\ rl = NoCalls
    /\ g = NoHistory
    /\ q = NoQueue
    /\ nz \in {[NoAddress EXCEPT !.input = a] : a \in NormInputs}

\* normalize_address(address)
normalize_once ==
    /\ nz.step = 0
    /\ nz' = [nz EXCEPT !.step = 1, !.once = normalize_address(nz.input)]
    /\ UNCHANGED <<q, cfg, tx, pc, loc, decision, counters, created, rl, g>>

\* normalize_address of the result
normalize_again ==
    /\ nz.step = 1
    /\ nz' = [nz EXCEPT !.step = 2, !.twice = normalize_address(parseAddress(nz.once))]
    /\ UNCHANGED <<q, cfg, tx, pc, loc, decision, counters, created, rl, g>>

NextNorm ==
    \/ normalize_once
    \/ normalize_again

SpecNorm == InitNorm /\ [][NextNorm]_vars

(***************************************************************************)
(* Properties                                                              *)
(***************************************************************************)
\* the last RCPT has been decided
Decided == pc = "idle" /\ decision # NoDecision

uniqueKeys(m) == \A i, j \in DOMAIN m : m[i].key = m[j].key => i = j
\* every entry of `before` is in `now`, unchanged
kept(before, now) ==
    \A i \in DOMAIN before : mapHas(now, before[i].key) /\ mapGet(now, before[i].key) = before[i]

\* C1: an account id is in mailboxTargets at most once, and a RCPT leaves the
\* entries recorded before it as they were (first resolution wins).
C1_FirstResolutionWins == uniqueKeys(tx.users) /\ kept(g.before.users, tx.users)

C3_AliasChainAccepted ==
    loc.kind = "targets" =>
        \/ pc = "wdf"
        \/ /\ Decided
           /\ decision.code = "OK"
           /\ mapHas(tx.forward, AliasTargets[1].value)

\* the RCPT resolved to an account whose document was fetched and is enabled
FetchedEnabled ==
    /\ loc.kind = "user"
    /\ loc.userData._id # <<>>
    /\ loc.userData._id = loc.user
    /\ ~loc.userData.disabled
    /\ pc \in {"idle", "rl_user"}

MailboxFull == pc = "idle" /\ decision = Decision("DENY", "mbox_full")

\* the account's own quota or, when it has none, the configured default
C4_Quota == IF loc.userData.quota # 0 THEN loc.userData.quota ELSE cfg.maxStorage * MB

\* C4 as stated: "mailbox full" exactly when storageUsed >= quota, zero included.
C4_FullIffUsedAtLeastQuota ==
    FetchedEnabled => (MailboxFull <=> loc.userData.storageUsed >= C4_Quota)

\* C4 as amended: "mailbox full" exactly when storageUsed is not zero and
\* storageUsed >= quota.
C4_FullIffUsedAndAtLeastQuota ==
    FetchedEnabled =>
        (MailboxFull <=> (loc.userData.storageUsed > 0 /\ loc.userData.storageUsed >= C4_Quota))

C4_Witness == FetchedEnabled /\ MailboxFull

\* C5: in direct-mailbox resolution a RCPT rejected as unknown, disabled or full
\* made no rate-limit call and left the counters as they were; a disabled
\* account is rejected as disabled whatever its quota; the limiter is only
\* called for an account that passed the checks, and a mailbox target is only
\* recorded after the limiter admitted.
C5_ChecksBeforeRateLimit ==
    /\ (Decided /\ decision.code = "DENY" /\ loc.kind \in {"user", "none"}) =>
           /\ g.calls \cap {"rateLimit", "ttlcounter"} = {}
           /\ counters = g.counters
    /\ (loc.kind = "user" /\ loc.userData._id = loc.user /\ loc.userData.disabled) =>
           Decided /\ decision = Decision("DENY", "mbox_disabled")
    /\ (loc.kind = "user" /\ loc.userData._id = loc.user /\ "rateLimit" \in g.calls) =>
           /\ ~loc.userData.disabled
           /\ ~(loc.userData.storageUsed > 0 /\ loc.userData.storageUsed >= C4_Quota)
    /\ (loc.kind \in {"user", "none"} /\ tx.users # g.before.users) =>
           /\ "rateLimit" \in g.calls
           /\ ~g.denied /\ ~g.err
           /\ Decided /\ decision.code = "OK"

\* an account whose counter exists is rejected as full
C5_Witness ==
    /\ MailboxFull
    /\ loc.kind = "user"
    /\ rlKey("rcpt", loc.user) \in DOMAIN counters

\* C7: a RCPT the rate limiter denied ends in DENYSOFT "rate limited" and adds
\* no entry to mailboxTargets or forwardTargets.
C7_DeniedIsTemporary ==
    g.denied =>
        /\ pc = "idle"
        /\ decision = Decision("DENYSOFT", "rcpt_too_fast")
        /\ tx.users = g.before.users
        /\ tx.forward = g.before.forward

C7_Witness == g.denied /\ Decided

\* the reversal of a redirect-encoded address fails: malformed, badly signed,
\* or with an original domain that is empty once decoded
SrsReversalFails(address) ==
    LET r == srsReverse(Before(address, At))
    IN ~r.ok \/ trim(r.domain) = <<>>

\* C8: a redirect-encoded RCPT whose reversal fails ends in DENY "no such
\* user", with no rate-limit call and no forward target recorded.
C8_FailedReversalIsPermanent ==
    (IsSrsAddress(loc.address) /\ SrsReversalFails(loc.address)) =>
        /\ pc = "idle"
        /\ decision = Decision("DENY", "no_such_user")
        /\ g.calls = {}
        /\ counters = g.counters
        /\ tx.forward = g.before.forward
        /\ tx.users = g.before.users

\* the address with the blank original domain is rejected
C8_Witness ==
    /\ Decided
    /\ IsSrsAddress(loc.address)
    /\ srsReverse(Before(loc.address, At)).ok
    /\ SrsReversalFails(loc.address)

\* C9: an accepted redirect-encoded RCPT with original domain D records a
\* forward target whose address has the ASCII form of D as its domain.
C9_RecordedDomainIsAscii ==
    (Decided /\ decision.code = "OK" /\ loc.reversed # <<>>) =>
        LET D == srsReverse(Before(loc.address, At)).domain
        IN /\ mapHas(tx.forward, loc.reversed)
           /\ AfterLast(mapGet(tx.forward, loc.reversed).value, At) = toASCII(trim(toLowerCase(D)))

\* C10: a RCPT during which a store or counter call failed ends in a temporary
\* rejection (DENYSOFT, or the error handed to next), never in DENY or OK.
C10_StoreErrorIsTemporary ==
    g.err =>
        /\ pc = "idle"
        /\ decision.code \in {"DENYSOFT", "ERR"}

\* C6: an answered rateLimit call is admitted iff it is one of the first
\* `limit` answered calls of its identity in the window, whichever
\* transactions made the calls; a counter lives for the configured window.
C6_AdmitsFirstLimitCalls ==
    /\ rl.last.n > 0 => (rl.last.success <=> rl.last.n <= cfg.limit)
    /\ \A k \in DOMAIN counters : counters[k].ttl = windowSizeOf(cfg)
    /\ \A c \in Conns : rl.conn[c].result = "denied" => rl.sawDenied

\* after a denial, the first call of a later window is admitted again
C6_Witness ==
    /\ rl.sawDenied
    /\ rl.last.success
    /\ rl.last.n = 1
    /\ rl.last.window >= 1

\* C11: the first account whose delivery fails decides the transaction: DENY
\* for a message dropped by policy, DENYSOFT for any other returned error and
\* for an error of the engine, however many accounts were stored before, and
\* no later account is delivered.
C11_FirstFailureDecides ==
    q.failed # 0 =>
        /\ Len(q.nexts) = 1
        /\ q.nexts[1].code = (IF ~q.response.err /\ q.response.error = "DroppedByPolicy"
                              THEN "DENY" ELSE "DENYSOFT")
        /\ q.store = "stopped"
        /\ q.outstanding = 0
        /\ Len(q.delivered) = q.failed
        /\ \A i \in 1..q.failed : q.delivered[i].user = tx.users[i].key

\* the second account is dropped by policy after the first was stored
C11_Witness ==
    /\ q.failed = 2
    /\ q.delivered[1].user = tx.users[1].key
    /\ q.response.error = "DroppedByPolicy"
    /\ q.nexts = <<Decision("DENY", "response.error.message")>>

\* C12: after an error of the message stream (with the collector alone or with
\* the collector and the maildrop reading) or a failed forward submission, what
\* hook_queue passes to next() is DENYSOFT, never OK or DENY, and no account
\* is delivered to.
C12_StreamOrForwardFailureIsTemporary ==
    (q.source = "error" \/ q.push = "failed") =>
        /\ q.nexts # <<>>
        /\ \A i \in DOMAIN q.nexts : q.nexts[i].code = "DENYSOFT"
        /\ q.delivered = <<>>

\* the stream failed with both readers attached, and the maildrop reported it
C12_Witness ==
    /\ q.path = "forward"
    /\ q.source = "error"
    /\ q.push = "failed"
    /\ q.nexts[1] = FailedToQueue

\* the stream failed with the collector as its only reader
C12_WitnessCollector ==
    /\ q.path = "collect"
    /\ q.source = "error"
    /\ q.nexts = <<FailedToQueue>>

\* a RCPT is running: hook_rcpt was called and has not passed a decision to next
Running == pc \notin {"init", "idle", "queue"}

\* C13: every RCPT yields a decision: whenever a RCPT is running, next() is
\* called for it later on, provided the store and the counters call back.
C13_EveryRcptDecided == Running ~> Decided

\* the last RCPT was rejected: next() got DENY, DENYSOFT or an error
Rejected == Decided /\ decision.code # "OK"

entriesOf(a) == Cardinality({i \in DOMAIN tx.recipients : tx.recipients[i] = a})

C16_AllowListed ==
    LET domain == SubSeq(loc.address, lastIndexOf(loc.address, At) + 1, Len(loc.address))
    IN <<"*">> \in cfg.hosts \/ domain \in cfg.hosts

\* the RCPT matched no account: no address, or an address whose account is gone
C16_Unknown == loc.kind = "none" \/ (loc.kind = "user" /\ "create" \in g.calls)

\* C16: an unknown address is rejected with "no such user" when provisioning
\* is off, and also, with no creation call, when its domain is not
\* allow-listed; an account is only created with provisioning on and the
\* domain allow-listed; a created account is recorded only after the rate
\* limiter admitted it.
C16_ProvisioningRules ==
    /\ (loc.kind = "none" /\ ~cfg.createMissing) =>
           /\ Decided /\ decision = Decision("DENY", "no_such_user")
           /\ "create" \notin g.calls
    /\ (loc.kind = "none" /\ cfg.createMissing /\ ~C16_AllowListed) =>
           /\ Decided /\ decision = Decision("DENY", "no_such_user")
           /\ "create" \notin g.calls
    /\ "create" \in g.calls => (cfg.createMissing /\ C16_AllowListed)
    /\ created > 0 => cfg.createMissing
    /\ (loc.id # <<>> /\ mapHas(tx.users, loc.id)) =>
           /\ "rateLimit" \in g.calls
           /\ ~g.denied /\ ~g.err
           /\ Decided /\ decision.code = "OK"
           /\ ~mapHas(g.before.users, loc.id)

\* an account was created for an unknown address and recorded after the
\* counter admitted it
C16_Witness ==
    /\ C16_Unknown
    /\ Decided
    /\ loc.id # <<>>
    /\ mapHas(tx.users, loc.id)
    /\ "ttlcounter" \in g.calls

\* an unknown address of a domain that is not allow-listed is rejected
C16_WitnessRefused ==
    /\ loc.kind = "none"
    /\ cfg.createMissing
    /\ ~C16_AllowListed
    /\ Decided

\* C17: normalizing the result of normalize_address again gives the same
\* string.
C17_NormalizationIdempotent == nz.step = 2 => nz.twice = nz.once

\* the repair of the case of a redirect-encoded local part is a fixed point
\* after one pass
C17_CaseRepairIsFixedPoint ==
    nz.step = 2 => Before(nz.twice, At) = Before(nz.once, At)

\* hook_queue has passed OK to next()
Accepted == \E i \in DOMAIN q.nexts : q.nexts[i].code = "OK"

\* C18: filterHandler.process is called for the entries of mailboxTargets in
\* insertion order, once each, with at most one call outstanding, and the
\* transaction is accepted only when the call for the last entry has called
\* back and none has failed.
C18_SequentialDelivery ==
    /\ q.outstanding \in {0, 1}
    /\ Len(q.delivered) <= Len(tx.users)
    /\ \A i \in DOMAIN q.delivered :
          /\ q.delivered[i].user = tx.users[i].key
          /\ q.delivered[i].recipient = tx.users[i].recipient
    /\ q.outstanding = 1 => (q.store = "process" /\ q.stored = Len(q.delivered))
    /\ Accepted =>
          /\ q.nexts = <<Decision("OK", "Message processed")>>
          /\ Len(q.delivered) = Len(tx.users)
          /\ q.outstanding = 0
          /\ q.failed = 0

\* a transaction with two mailbox targets and nothing to forward is accepted
C18_Witness ==
    /\ Accepted
    /\ Len(tx.users) = 2
    /\ tx.forward = <<>>
    /\ Len(q.delivered) = 2
    /\ q.delivered[1].user # q.delivered[2].user

\* the completion record of the forward of the transaction
C19_Record ==
    [action |-> "FORWARD", from |-> Sender, to |-> tx.recipients,
     targets |-> [i \in DOMAIN tx.forward |->
                     [type |-> tx.forward[i].type, value |-> tx.forward[i].value,
                      recipient |-> tx.forward[i].recipient]]]

C19_WitnessNotWritten ==
    /\ tx.forward # <<>>
    /\ q.delivered # <<>>
    /\ q.log = "failed"

\* a delivery is invoked though nothing was queued for the forward
C19_WitnessNothingQueued ==
    /\ tx.forward # <<>>
    /\ q.delivered # <<>>
    /\ q.push = "empty"

\* the local part of the RCPT is redirect-encoded for the normalizer: it
\* starts with SRS, digits and =, in any case
C20_Detected ==
    /\ loc.rcpt # NoRcpt
    /\ Len(loc.rcpt.user) >= 5
    /\ SubSeq(toUpperCase(loc.rcpt.user), 1, 3) = <<"S", "R", "S">>
    /\ IsDigit(loc.rcpt.user[4])
    /\ \E i \in 5..Len(loc.rcpt.user) :
          /\ loc.rcpt.user[i] = "="
          /\ \A j \in 4..(i - 1) : IsDigit(loc.rcpt.user[j])

\* C20: a redirect-encoded RCPT makes no address resolution, account fetch or
\* account creation, in whatever case it came; when it is accepted it is
\* recorded into forwardTargets with kind mail and never into mailboxTargets.
C20_SrsBypassesResolver ==
    C20_Detected =>
        /\ g.calls \cap {"resolveAddress", "get", "create", "findOne"} = {}
        /\ pc \in {"idle", "rl_srs"}
        /\ tx.users = g.before.users
        /\ (Decided /\ decision.code = "OK") =>
               /\ "rateLimit" \in g.calls
               /\ mapHas(tx.forward, loc.reversed)
               /\ mapGet(tx.forward, loc.reversed).type = "mail"
               /\ mapGet(tx.forward, loc.reversed).value = loc.reversed

\* a redirect-encoded address that came in lower case is accepted
C20_Witness ==
    /\ C20_Detected
    /\ loc.rcpt.user[1] = "s"
    /\ Decided
    /\ decision.code = "OK"
    /\ mapHas(tx.forward, loc.reversed)

\* the first call that called back with a parsed structure, 0 if none has
FirstParsed ==
    IF \E i \in DOMAIN q.returned : q.returned[i]
    THEN CHOOSE i \in DOMAIN q.returned : q.returned[i] /\ \A j \in 1..(i - 1) : ~q.returned[j]
    ELSE 0

\* C21: the parse cache is empty until a delivery calls back with a parsed
\* structure, then holds the structure of the first delivery that did, also
\* after later deliveries called back with structures of their own, and every
\* delivery is invoked with the cache as it was then: empty up to that first
\* delivery, its structure for every later one.
C21_ParseCacheWriteOnce ==
    /\ q.prepared = FirstParsed
    /\ \A i \in DOMAIN q.delivered :
          q.delivered[i].prepared = (IF FirstParsed # 0 /\ i > FirstParsed THEN FirstParsed ELSE 0)

\* a later delivery was invoked with the structure of the first one and called
\* back with a structure of its own
C21_Witness ==
    /\ Len(q.returned) >= 2
    /\ q.returned[1]
    /\ q.returned[2]
    /\ q.delivered[2].prepared = 1
    /\ q.prepared = 1

\* C22: hook_queue passes a decision to next() at most once, however the
\* errors of the streams and the callbacks of the maildrop and of the
\* deliveries fall.
C22_DecidedAtMostOnce == Len(q.nexts) <= 1

====
